---- MODULE Spec2Model ----
(***************************************************************************)
(* Model of test-lambda: the name resolver (findFunctionName), the remote  *)
(* name lookup (resolveFunctionName), the invocation runner (runLambda)    *)
(* and the batch orchestrator (main).                                      *)
(*                                                                         *)
(* JavaScript strings that the code inspects (CodeUri values, fixture      *)
(* names) are sequences of one-character strings; object keys and function *)
(* names are TLA+ strings, "" being the empty key.                         *)
(***************************************************************************)
EXTENDS Integers, Sequences, FiniteSets, TLC

(***************************************************************************)
(* Bounds of the model.                                                    *)
(***************************************************************************)
\* largest number of entries added to a descriptor before it is resolved
MaxEdits == 2
\* largest number of files in the events directory
MaxFiles == 2

(***************************************************************************)
(* Parsed YAML values.  A value is a record [t, s, e]: t is its type tag,  *)
(* s the characters of a string, e the entries of a mapping or a sequence  *)
(* in document order, each entry a record [k, v].  The entries of a        *)
(* sequence carry the index keys "0", "1", ... that Object.entries gives.  *)
(***************************************************************************)
StrVal(chars) == [t |-> "str", s |-> chars, e |-> <<>>]
NullVal == [t |-> "null", s |-> <<>>, e |-> <<>>]
NumVal == [t |-> "num", s |-> <<>>, e |-> <<>>]
MapVal(entries) == [t |-> "map", s |-> <<>>, e |-> entries]
SeqVal(entries) == [t |-> "seq", s |-> <<>>, e |-> entries]
Entry(key, value) == [k |-> key, v |-> value]

\* String.prototype.endsWith on character sequences
EndsWith(str, suffix) ==
    /\ Len(suffix) <= Len(str)
    /\ SubSeq(str, Len(str) - Len(suffix) + 1, Len(str)) = suffix

\* object && typeof object === "object": mappings and arrays, not null
IsObject(object) == object.t \in {"map", "seq"}

\* results of a call: a returned string, undefined, or a thrown TypeError
Ret(name) == [k |-> "ret", v |-> name]
Undefined == [k |-> "undef", v |-> ""]
Throw == [k |-> "throw", v |-> "TypeError"]

\* JavaScript truthiness of a call result: a non-empty string
Truthy(result) == result.k = "ret" /\ result.v # ""

\* parents[parents.length - 2]: undefined when there are fewer than two
ParentsAt(parents) ==
    IF Len(parents) >= 2 THEN Ret(parents[Len(parents) - 1]) ELSE Undefined

RECURSIVE findFunctionName(_, _, _), EntriesLoop(_, _, _, _)

\* the for loop of findFunctionName over Object.entries(object), from entry i
EntriesLoop(entries, i, codeUri, parents) ==
    IF i > Len(entries) THEN Undefined
    ELSE LET key == entries[i].k
             value == entries[i].v
         IN  IF key = "CodeUri" /\ value.t # "str" THEN Throw
             ELSE IF key = "CodeUri" /\ EndsWith(value.s, codeUri)
                  THEN ParentsAt(parents)
             ELSE LET result == findFunctionName(value, codeUri, Append(parents, key))
                  IN  IF result.k = "throw" THEN result
                      ELSE IF Truthy(result) THEN result
                      ELSE EntriesLoop(entries, i + 1, codeUri, parents)

\* findFunctionName without the "object &&" guard: typeof null is "object",
\* and Object.entries(null) throws a TypeError
findFunctionNameNoNullGuard(object, codeUri, parents) ==
    IF IsObject(object) THEN EntriesLoop(object.e, 1, codeUri, parents)
    ELSE IF object.t = "null" THEN Throw
    ELSE Undefined

findFunctionName(object, codeUri, parents) ==
    IF IsObject(object) THEN EntriesLoop(object.e, 1, codeUri, parents)
    ELSE Undefined

(***************************************************************************)
(* Descriptors.  CodeUri values and fixture names are short character      *)
(* sequences: "d/f" stands for a path like          *)
(* "dist/foo", "f" for the fixture "foo".                                  *)
(***************************************************************************)
DistF == <<"d", "/", "f">>
DistB == <<"d", "/", "b">>
NameF == <<"f">>
NameB == <<"b">>

\* { Resources: { MyFunc: { Type: ..., Properties: { CodeUri: "d/f" } } } }
DocTest ==
    MapVal(<<Entry("Resources", MapVal(<<Entry("MyFunc", MapVal(<<
        Entry("Type", StrVal(<<"t">>)),
        Entry("Properties", MapVal(<<Entry("CodeUri", StrVal(DistF))>>))>>))>>))>>)

\* { Resources: { Func1: { Properties: { CodeUri: "d/f" } },
\*                Func2: { Properties: { CodeUri: "d/f" } } } }
DocTwo ==
    MapVal(<<Entry("Resources", MapVal(<<
        Entry("Func1", MapVal(<<Entry("Properties",
            MapVal(<<Entry("CodeUri", StrVal(DistF))>>))>>)),
        Entry("Func2", MapVal(<<Entry("Properties",
            MapVal(<<Entry("CodeUri", StrVal(DistF))>>))>>))>>))>>)

\* { Resources: { MyFunc: { Nested: { Properties: { CodeUri: "d/f" } } } } }
DocDeep ==
    MapVal(<<Entry("Resources", MapVal(<<Entry("MyFunc", MapVal(<<
        Entry("Nested", MapVal(<<Entry("Properties",
            MapVal(<<Entry("CodeUri", StrVal(DistF))>>))>>))>>))>>))>>)

\* { MyFunc: { Properties: { CodeUri: "d/b" } } }
DocFlat ==
    MapVal(<<Entry("MyFunc", MapVal(<<Entry("Properties",
        MapVal(<<Entry("CodeUri", StrVal(DistB))>>))>>))>>)

DocEmpty == MapVal(<<>>)

\* { Resources: [ { Properties: { CodeUri: "d/f" } } ] }
DocArray ==
    MapVal(<<Entry("Resources", SeqVal(<<Entry("0", MapVal(<<Entry("Properties",
        MapVal(<<Entry("CodeUri", StrVal(DistF))>>))>>))>>))>>)

\* the roots of the descriptors: the documents above and non-mapping roots
SeedTrees == {DocTest, DocTwo, DocDeep, DocFlat, DocEmpty, DocArray,
              NullVal, NumVal, StrVal(DistF)}

Suffixes == {NameF, NameB}

\* keys and values of the entries a template can gain
InsertKeys == {"CodeUri", "Extra"}
InsertValues == {StrVal(DistF), NullVal, MapVal(<<>>), SeqVal(<<>>)}
IndexKey(i) == CASE i = 1 -> "0" [] i = 2 -> "1" [] i = 3 -> "2" [] OTHER -> "3"

InsertAt(entries, i, entry) ==
    SubSeq(entries, 1, i - 1) \o <<entry>> \o SubSeq(entries, i, Len(entries))

OwnKeys(entries) == {entries[i].k : i \in 1..Len(entries)}

RECURSIVE Inserts(_)

\* every value obtained from value by adding one entry to one of its
\* mappings (at any position, under a key it does not hold yet) or by
\* appending one element to one of its sequences
Inserts(value) ==
    IF ~IsObject(value) THEN {}
    ELSE (IF value.t = "map"
          THEN { [value EXCEPT !.e = InsertAt(value.e, i, Entry(key, new))] :
                   i \in 1..(Len(value.e) + 1),
                   key \in InsertKeys \ OwnKeys(value.e),
                   new \in InsertValues }
          ELSE { [value EXCEPT !.e = Append(value.e,
                                            Entry(IndexKey(Len(value.e) + 1), new))] :
                   new \in InsertValues })
         \cup UNION { { [value EXCEPT !.e[i].v = inner] :
                          inner \in Inserts(value.e[i].v) } :
                      i \in 1..Len(value.e) }

(***************************************************************************)
(* File names.  path.extname gives the part from the last dot on, and      *)
(* nothing when there is no dot or the only dot leads the name;            *)
(* path.basename(name, ext) drops ext from the end of the name.            *)
(***************************************************************************)
LastDot(name) ==
    LET dots == {i \in 1..Len(name) : name[i] = "."}
    IN  IF dots = {} THEN 0 ELSE CHOOSE i \in dots : \A j \in dots : j <= i

extname(name) ==
    IF LastDot(name) <= 1 THEN <<>> ELSE SubSeq(name, LastDot(name), Len(name))

basename(name, ext) ==
    IF ext = <<>> \/ Len(ext) > Len(name) THEN name
    ELSE IF ext = name THEN <<>>
    ELSE IF EndsWith(name, ext) THEN SubSeq(name, 1, Len(name) - Len(ext))
    ELSE name

\* the lambda of main.js:29 and again of main.js:40
StripExtension(name) == basename(name, extname(name))

\* "b.j", "f.b.j", "f.j" and "f.y": event files, ".j" standing for ".json"
\* and ".y" for another extension
DirNames ==
    << <<"b", ".", "j">>, <<"f", ".", "b", ".", "j">>, <<"f", ".", "j">>,
       <<"f", ".", "y">> >>

RECURSIVE Pick(_, _)
\* the names of DirNames at the indexes of chosen, in directory order
Pick(chosen, i) ==
    IF i > Len(DirNames) THEN <<>>
    ELSE (IF i \in chosen THEN <<DirNames[i]>> ELSE <<>>) \o Pick(chosen, i + 1)

\* the listings readdir can return
Listings ==
    {Pick(chosen, 1) : chosen \in {c \in SUBSET (1..Len(DirNames)) :
                                     Cardinality(c) <= MaxFiles}}

\* { Resources: { Func1: { Properties: { CodeUri: "d/f" } },
\*                Func2: { Properties: { CodeUri: "d/b" } } } }
DocPair ==
    MapVal(<<Entry("Resources", MapVal(<<
        Entry("Func1", MapVal(<<Entry("Properties",
            MapVal(<<Entry("CodeUri", StrVal(DistF))>>))>>)),
        Entry("Func2", MapVal(<<Entry("Properties",
            MapVal(<<Entry("CodeUri", StrVal(DistB))>>))>>))>>))>>)

\* { Resources: { Func1: { Properties: { CodeUri: { Bucket: ..., Key: ... } } } } }
DocBucket ==
    MapVal(<<Entry("Resources", MapVal(<<Entry("Func1", MapVal(<<Entry("Properties",
        MapVal(<<Entry("CodeUri", MapVal(<<
            Entry("Bucket", StrVal(<<"b">>)),
            Entry("Key", StrVal(<<"k">>))>>))>>))>>))>>))>>)

\* the templates of the batch runs
Templates == {DocPair, DocTest, DocEmpty, DocBucket}

\* argv[2] and argv[3]; an absent argv[3] is the empty string here
Modes == {"local", "remote", "deploy"}
Filters == {<<>>, NameF}

(***************************************************************************)
(* Output files.  The content of <outputDir>/<lambda>.json is a record     *)
(* [kind, statusCode, errors, body]: the file is absent, holds no bytes,   *)
(* holds bytes that are not JSON, holds the JSON text null, or holds a     *)
(* JSON object with a statusCode, an optional top-level errors list and an *)
(* optional body, the body being JSON text itself.                         *)
(***************************************************************************)
NoBody == "undefined"
Content(kind, statusCode, errors, body) ==
    [kind |-> kind, statusCode |-> statusCode, errors |-> errors, body |-> body]
Absent == Content("absent", 0, "absent", NoBody)
Empty == Content("empty", 0, "absent", NoBody)
Garbage == Content("garbage", 0, "absent", NoBody)
JsonNull == Content("null", 0, "absent", NoBody)
Unread == Content("unread", 0, "absent", NoBody)
NoWrite == Content("nowrite", 0, "absent", NoBody)

BodyTexts == {NoBody, "{}", "{\"errors\":[]}", "{\"errors\":[1]}", "oops"}
Payloads ==
    {Content("object", sc, er, bd) :
        sc \in {200, 500}, er \in {"absent", "list"}, bd \in BodyTexts}

\* what a child can leave in the output file: nothing, or new bytes
ChildOutputs(code) ==
    IF code = 0 THEN {NoWrite, Empty, Garbage, JsonNull} \cup Payloads
    ELSE {NoWrite, Garbage}

ExitCodes == {0, 1}

\* JSON.parse of a body text: the errors of the parsed body, or a throw
JSONParseBody(text) ==
    CASE text = "{}" -> [k |-> "ok", errors |-> "absent"]
      [] text = "{\"errors\":[]}" -> [k |-> "ok", errors |-> "empty"]
      [] text = "{\"errors\":[1]}" -> [k |-> "ok", errors |-> "list"]
      [] OTHER -> [k |-> "throw", errors |-> "absent"]

\* truthiness of an errors field: an array is truthy even when empty
HasErrors(errors) == errors \in {"empty", "list"}
\* errors.length is not 0
NonEmpty(errors) == errors = "list"

\* lines 102-117 of run-lambda.js on the bytes that readFile gives: the
\* report made, or "throw" when readFile, JSON.parse or a property read throws
Judge(content) ==
    CASE content.kind = "absent" -> "throw"
      [] content.kind = "empty" -> "empty"
      [] content.kind = "garbage" -> "throw"
      [] content.kind = "null" -> "throw"
      [] OTHER ->
         LET body == JSONParseBody(IF content.body = NoBody THEN "{}"
                                   ELSE content.body)
         IN  IF body.k = "throw" THEN "throw"
             ELSE IF /\ content.statusCode = 200
                     /\ (\/ ~HasErrors(content.errors)
                         \/ ~HasErrors(body.errors)
                         \/ ~NonEmpty(body.errors))
                  THEN "success"
             ELSE "failure"

(***************************************************************************)
(* Values of the environment and of the options of main: undefined, a      *)
(* string or a boolean, with the truthiness JavaScript gives them.         *)
(***************************************************************************)
JUndefined == [t |-> "undefined", s |-> ""]
JString(text) == [t |-> "string", s |-> text]
JTrue == [t |-> "boolean", s |-> "true"]

ToBoolean(value) ==
    CASE value.t = "undefined" -> FALSE
      [] value.t = "string" -> value.s # ""
      [] OTHER -> value.s = "true"

(***************************************************************************)
(* resolveFunctionName.  The text execSync returns is a sequence of        *)
(* tokens, each a run of characters or one whitespace character; the       *)
(* inventory answers with the name of a deployed function that starts with *)
(* the prefix, with nothing, with the text None, or execSync throws.       *)
(***************************************************************************)
StackName == "stack"
InventoryAnswers == {"match", "", "None", "error"}
MoreAnswers == {"padded", "blank", "bareNone", "enoent"}

WhiteSpace == {" ", "\n", "\t"}

RECURSIVE TrimStart(_), TrimEnd(_), Concat(_)

TrimStart(tokens) ==
    IF tokens # <<>> /\ Head(tokens) \in WhiteSpace THEN TrimStart(Tail(tokens))
    ELSE tokens

TrimEnd(tokens) ==
    IF tokens # <<>> /\ tokens[Len(tokens)] \in WhiteSpace
    THEN TrimEnd(SubSeq(tokens, 1, Len(tokens) - 1))
    ELSE tokens

Concat(tokens) ==
    IF tokens = <<>> THEN "" ELSE Head(tokens) \o Concat(Tail(tokens))

\* String.prototype.trim
Trim(tokens) == Concat(TrimEnd(TrimStart(tokens)))

\* the prefix made without the test of line 23
EffectivePrefixAlways(prefix, stackName) == stackName.s \o "-" \o prefix

\* run-lambda.js:23-25: the prefix the query is made with
EffectivePrefix(prefix, stackName) ==
    IF ToBoolean(stackName) THEN stackName.s \o "-" \o prefix ELSE prefix

\* run-lambda.js:28: the command handed to execSync
Command(prefix) ==
    "aws lambda list-functions --query \"Functions[?starts_with(FunctionName, '"
    \o prefix \o "')].FunctionName | [0]\" --output text"

\* what execSync does with the command: the text it returns or the error it
\* throws
Inventory(prefix, answer) ==
    CASE answer = "match" -> Ret(<<prefix \o "-1a2b", "\n">>)
      [] answer = "padded" -> Ret(<<" ", "\t", prefix, " ", "x", "\n">>)
      [] answer = "" -> Ret(<<>>)
      [] answer = "blank" -> Ret(<<" ", "\n">>)
      [] answer = "None" -> Ret(<<"None", "\n">>)
      [] answer = "bareNone" -> Ret(<<"None">>)
      [] answer = "enoent" -> [k |-> "throw", v |-> "spawnSync /bin/sh ENOENT"]
      [] OTHER -> [k |-> "throw", v |-> "Command failed: aws"]

\* the error of the catch block without err.message
FailedNoCause(message) == [k |-> "throw", v |-> "Failed to resolve function: "]

\* run-lambda.js:36: the error of the catch block
Failed(message) == [k |-> "throw", v |-> "Failed to resolve function: " \o message]

\* resolveFunctionName without the test of lines 31-33
resolveFunctionNameNoCheck(prefix, stackName, answer) ==
    LET effective == EffectivePrefix(prefix, stackName)
        exec == Inventory(effective, answer)
    IN  IF exec.k = "throw" THEN Failed(exec.v) ELSE Ret(Trim(exec.v))

\* run-lambda.js:22-38; the throw of line 32 is caught at line 35
resolveFunctionName(prefix, stackName, answer) ==
    LET effective == EffectivePrefix(prefix, stackName)
        exec == Inventory(effective, answer)
    IN  IF exec.k = "throw" THEN Failed(exec.v)
        ELSE LET output == Trim(exec.v)
             IN  IF output = "" \/ output = "None"
                 THEN Failed("No function found with prefix: " \o effective)
                 ELSE Ret(output)

(***************************************************************************)
(* State.                                                                  *)
(***************************************************************************)
VARIABLES
    document,         \* the parsed template
    suffix,           \* the suffix of a direct findFunctionName call
    edits,            \* entries added to the template so far
    found,            \* the result of the direct findFunctionName call
    mainpc,           \* where main is
    mode,             \* argv[2]
    filter,           \* argv[3]
    dirEntries,       \* the names in the events directory
    lambdaFilenames,  \* main's list of fixtures
    outputDirMade,    \* mkdir has run
    files,            \* the content of the output file of each fixture name
    tasks,            \* the runLambda calls, in launch order
    alive,            \* the node process runs
    thrown,           \* the error main has rejected with
    parses,           \* the number of YAML.parse calls of main
    env,              \* process.env of the entrypoint
    stackName,        \* the stackName the entrypoint passes to main
    prefix,           \* the declared name resolveFunctionName is called with
    inventory,        \* how the inventory answers the query
    command,          \* the command handed to execSync
    actual,           \* the result of resolveFunctionName
    lpc               \* where the entrypoint and the lookup are

rvars == <<document, suffix, edits, found>>
pvars == <<mainpc, mode, filter, dirEntries, lambdaFilenames, outputDirMade,
           files, tasks, alive, thrown, parses>>
lvars == <<env, stackName, prefix, inventory, command, actual, lpc>>
vars == <<document, suffix, edits, found, mainpc, mode, filter, dirEntries,
          lambdaFilenames, outputDirMade, files, tasks, alive, thrown, parses,
          env, stackName, prefix, inventory, command, actual, lpc>>

NotCalled == [k |-> "none", v |-> ""]

\* main.js:6: the errors main rejects with
NoError == [type |-> "none", message |-> ""]
InputError(message) == [type |-> "InputError", message |-> message]

\* the fixture names main can derive, the keys of files
OutputNames == {StripExtension(StripExtension(DirNames[i])) : i \in 1..Len(DirNames)}

Idle ==
    /\ mainpc = "idle"
    /\ mode = "local"
    /\ filter = <<>>
    /\ dirEntries = <<>>
    /\ lambdaFilenames = <<>>
    /\ outputDirMade = FALSE
    /\ files = [n \in OutputNames |-> Absent]
    /\ tasks = <<>>
    /\ alive = TRUE
    /\ thrown = NoError
    /\ parses = 0

\* the entrypoint and the lookup have not started
LookupIdle ==
    /\ env = [STACK_NAME |-> JUndefined, USE_PACKAGE_NAME |-> JUndefined,
              npm_package_name |-> JUndefined]
    /\ stackName = NotCalled
    /\ prefix = ""
    /\ inventory = ""
    /\ command = ""
    /\ actual = NotCalled
    /\ lpc = "idle"

(***************************************************************************)
(* The resolver on its own.                                                *)
(***************************************************************************)
ResolverInit ==
    /\ document \in SeedTrees
    /\ suffix \in Suffixes
    /\ edits = 0
    /\ found = NotCalled
    /\ Idle
    /\ LookupIdle

\* the template gains an entry before it is read
EditTemplate ==
    /\ found = NotCalled
    /\ edits < MaxEdits
    /\ document' \in Inserts(document)
    /\ edits' = edits + 1
    /\ UNCHANGED <<suffix, found>>
    /\ UNCHANGED <<pvars, lvars>>

\* findFunctionName(document, lambda)
Resolve ==
    /\ found = NotCalled
    /\ found' = findFunctionName(document, suffix, <<>>)
    /\ UNCHANGED <<document, suffix, edits>>
    /\ UNCHANGED <<pvars, lvars>>

ResolverNext == EditTemplate \/ Resolve

SpecResolver == ResolverInit /\ [][ResolverNext]_vars

(***************************************************************************)
(* The entrypoint and the remote lookup: run.js takes the stack name from  *)
(* the environment and passes it to main, which hands it to runLambda and  *)
(* so to resolveFunctionName.                                              *)
(***************************************************************************)
EnvValues(texts) == {JUndefined} \cup {JString(text) : text \in texts}

Envs ==
    [STACK_NAME : EnvValues({"", "stack"}),
     USE_PACKAGE_NAME : EnvValues({"true", "false", ""}),
     npm_package_name : EnvValues({"pkg"})]

DeclaredNames == {"MyFunc", "Func1"}

\* run.js:5-15: the stackName passed to main
EntryStackName(environment) ==
    LET usePackageName == IF environment.USE_PACKAGE_NAME = JUndefined THEN JTrue
                          ELSE environment.USE_PACKAGE_NAME
    IN  IF ~ToBoolean(environment.STACK_NAME) /\ ToBoolean(usePackageName)
        THEN environment.npm_package_name
        ELSE environment.STACK_NAME

LookupInit ==
    /\ env \in Envs
    /\ stackName = NotCalled
    /\ prefix \in DeclaredNames
    /\ inventory \in InventoryAnswers \cup MoreAnswers
    /\ command = ""
    /\ actual = NotCalled
    /\ lpc = "entry"
    /\ document = DocEmpty
    /\ suffix = <<>>
    /\ edits = 0
    /\ found = NotCalled
    /\ Idle

\* run.js:5-17
RunEntrypoint ==
    /\ lpc = "entry"
    /\ stackName' = EntryStackName(env)
    /\ lpc' = "lookup"
    /\ UNCHANGED <<env, prefix, inventory, command, actual>>
    /\ UNCHANGED <<rvars, pvars>>

\* run-lambda.js:67: resolveFunctionName(functionName, { stackName })
Lookup ==
    /\ lpc = "lookup"
    /\ command' = Command(EffectivePrefix(prefix, stackName))
    /\ actual' = resolveFunctionName(prefix, stackName, inventory)
    /\ lpc' = "done"
    /\ UNCHANGED <<env, stackName, prefix, inventory>>
    /\ UNCHANGED <<rvars, pvars>>

LookupNext == RunEntrypoint \/ Lookup

SpecLookup == LookupInit /\ [][LookupNext]_vars

(***************************************************************************)
(* runLambda.  A task is one call: pc is where the call is ("opening": at  *)
(* await open; "waiting": the child runs; "closed": the child has closed   *)
(* and its close event is queued; "closing": at await stdoutFd.close();    *)
(* "reading": at await readFile; "resolved" and "rejected": the returned   *)
(* promise has settled; "threw": the close handler threw and the promise   *)
(* stays pending), log the lines it has written to the console.            *)
(***************************************************************************)
Line(kind, value) == [k |-> kind, v |-> value]

\* the directories main is given
EventsDir == "events"
OutputDir == "out"

\* `${dir}/${lambda}.json`
JsonPath(dir, lambda) == dir \o "/" \o Concat(lambda) \o ".json"

\* lines 49-50 and the state of a call before anything is done: document
\* is the parsed template the call is given, command, args and stdout are
\* those of spawn, readPath the path given to readFile,
\* stderr the number of errors printed by the 'error' handler
NewTask(lambda) ==
    [lambda |-> lambda, pc |-> "start", fn |-> "", target |-> "", log |-> <<>>,
     opened |-> FALSE, looked |-> FALSE, spawned |-> FALSE, code |-> -1,
     read |-> Unread, closes |-> 0, document |-> document,
     inputPath |-> JsonPath(EventsDir, lambda),
     stdoutPath |-> JsonPath(OutputDir, lambda),
     command |-> "", args |-> <<>>, stdout |-> "", readPath |-> "", stderr |-> 0]

\* lines 70-81: the arguments of aws
RemoteArgs(task, functionName) ==
    <<"lambda", "invoke", "--function-name", functionName,
      "--payload", "file://" \o task.inputPath,
      "--cli-binary-format", "raw-in-base64-out",
      "--cli-read-timeout", "0", task.stdoutPath>>

\* line 61: the arguments of sam
LocalArgs(task, functionName) ==
    <<"local", "invoke", functionName, "--event", task.inputPath>>

\* the remote branch invoking the declared name
runRemoteDeclared(task, functionName, answer) ==
    LET actualFunctionName == resolveFunctionName(functionName, JString(StackName), answer)
    IN  IF actualFunctionName.k = "throw"
        THEN [task EXCEPT !.pc = "rejected", !.fn = functionName, !.looked = TRUE]
        ELSE [task EXCEPT !.pc = "waiting", !.fn = functionName, !.looked = TRUE,
                          !.target = actualFunctionName.v,
                          !.command = "aws",
                          !.args = RemoteArgs(task, functionName),
                          !.stdout = "ignore",
                          !.log = <<Line("command", 0)>>, !.spawned = TRUE]

\* the remote branch spawning the child before the lookup
runRemoteSpawnFirst(task, functionName, answer) ==
    LET actualFunctionName == resolveFunctionName(functionName, JString(StackName), answer)
        spawned == [task EXCEPT !.fn = functionName, !.looked = TRUE,
                                !.command = "aws", !.stdout = "ignore",
                                !.log = <<Line("command", 0)>>, !.spawned = TRUE]
    IN  IF actualFunctionName.k = "throw"
        THEN [spawned EXCEPT !.pc = "rejected"]
        ELSE [spawned EXCEPT !.pc = "waiting", !.target = actualFunctionName.v,
                             !.args = RemoteArgs(task, actualFunctionName.v)]

\* lines 49-87 in remote mode: the call up to the returned promise
runRemote(task, functionName, answer) ==
    LET actualFunctionName == resolveFunctionName(functionName, JString(StackName), answer)
    IN  IF actualFunctionName.k = "throw"
        THEN [task EXCEPT !.pc = "rejected", !.fn = functionName, !.looked = TRUE]
        ELSE [task EXCEPT !.pc = "waiting", !.fn = functionName, !.looked = TRUE,
                          !.target = actualFunctionName.v,
                          !.command = "aws",
                          !.args = RemoteArgs(task, actualFunctionName.v),
                          !.stdout = "ignore",
                          !.log = <<Line("command", 0)>>, !.spawned = TRUE]

\* lines 49-62: the call up to its first await or its return
runLambda(lambda, answer) ==
    LET functionName == findFunctionName(document, lambda, <<>>)
        task == NewTask(lambda)
    IN  IF functionName.k = "throw" THEN [task EXCEPT !.pc = "rejected"]
        ELSE IF ~Truthy(functionName)
             THEN [task EXCEPT !.pc = "resolved", !.log = <<Line("notfound", 0)>>]
        ELSE IF mode = "local"
             THEN [task EXCEPT !.pc = "opening", !.fn = functionName.v]
        ELSE runRemote(task, functionName.v, answer)

Settled(task) == task.pc \in {"resolved", "rejected"}

(***************************************************************************)
(* main and the batch.                                                     *)
(***************************************************************************)
RECURSIVE Join(_, _)
\* Array.prototype.join
Join(strings, separator) ==
    IF strings = <<>> THEN ""
    ELSE IF Len(strings) = 1 THEN strings[1]
    ELSE strings[1] \o separator \o Join(Tail(strings), separator)

\* argv.slice(2): the mode and, when given, the filter
ArgvFrom2 == IF filter = <<>> THEN <<mode>> ELSE <<mode, Concat(filter)>>

Init ==
    /\ document \in Templates
    /\ suffix = <<>>
    /\ edits = 0
    /\ found = NotCalled
    /\ mainpc = "start"
    /\ mode \in Modes
    /\ filter \in Filters
    /\ dirEntries \in Listings
    /\ lambdaFilenames = <<>>
    /\ outputDirMade = FALSE
    /\ files = [n \in OutputNames |-> Absent]
    /\ tasks = <<>>
    /\ alive = TRUE
    /\ thrown = NoError
    /\ parses = 0
    /\ LookupIdle

\* main without the mode check of lines 23-25
MainValidateNoCheck ==
    /\ alive /\ mainpc = "start"
    /\ mainpc' = "mkdir"
    /\ thrown' = thrown
    /\ UNCHANGED <<mode, filter, dirEntries, lambdaFilenames, outputDirMade,
                   files, tasks, alive>>
    /\ UNCHANGED <<parses, rvars, lvars>>

\* main.js:21-26: the mode check, then the call of mkdir
MainValidate ==
    /\ alive /\ mainpc = "start"
    /\ IF mode # "remote" /\ mode # "local"
       THEN /\ mainpc' = "rejectedMode"
            /\ thrown' = InputError("second argument must be 'remote' or 'local'")
       ELSE /\ mainpc' = "mkdir"
            /\ thrown' = thrown
    /\ UNCHANGED <<mode, filter, dirEntries, lambdaFilenames, outputDirMade,
                   files, tasks, alive>>
    /\ UNCHANGED <<parses, rvars, lvars>>

\* main.js:26-28: mkdir has made the output directory; readdir is called
MainMkdir ==
    /\ alive /\ mainpc = "mkdir"
    /\ outputDirMade' = TRUE
    /\ mainpc' = "readdir"
    /\ UNCHANGED <<mode, filter, dirEntries, lambdaFilenames, files, tasks, alive>>
    /\ UNCHANGED <<thrown, parses, rvars, lvars>>

\* main.js:28-36: the names are stripped and filtered; the template is read
MainReaddir ==
    /\ alive /\ mainpc = "readdir"
    /\ LET stripped == [j \in 1..Len(dirEntries) |-> StripExtension(dirEntries[j])]
           Keep(lambda) == lambda = filter
       IN  lambdaFilenames' = IF filter # <<>> THEN SelectSeq(stripped, Keep)
                              ELSE stripped
    /\ mainpc' = "readTemplate"
    /\ UNCHANGED <<mode, filter, dirEntries, outputDirMade, files, tasks, alive>>
    /\ UNCHANGED <<thrown, parses, rvars, lvars>>

\* main.js:36-39: the template is parsed and the map over the fixtures starts
MainParse ==
    /\ alive /\ mainpc = "readTemplate"
    /\ parses' = parses + 1
    /\ mainpc' = "launching"
    /\ UNCHANGED <<mode, filter, dirEntries, lambdaFilenames, outputDirMade,
                   files, tasks, alive>>
    /\ UNCHANGED <<thrown, rvars, lvars>>

\* a launch that parses the template again for its invocation
LaunchTaskReparse ==
    /\ alive /\ mainpc = "launching"
    /\ Len(tasks) < Len(lambdaFilenames)
    /\ parses' = parses + 1
    /\ \E answer \in InventoryAnswers :
          tasks' = Append(tasks,
                          runLambda(StripExtension(lambdaFilenames[Len(tasks) + 1]),
                                    answer))
    /\ UNCHANGED <<mainpc, mode, filter, dirEntries, lambdaFilenames,
                   outputDirMade, files, alive>>
    /\ UNCHANGED <<thrown, rvars, lvars>>

\* main.js:39-50: the next runLambda call, run up to its first await
LaunchTask ==
    /\ alive /\ mainpc = "launching"
    /\ Len(tasks) < Len(lambdaFilenames)
    /\ \E answer \in InventoryAnswers :
          tasks' = Append(tasks,
                          runLambda(StripExtension(lambdaFilenames[Len(tasks) + 1]),
                                    answer))
    /\ UNCHANGED <<mainpc, mode, filter, dirEntries, lambdaFilenames,
                   outputDirMade, files, alive>>
    /\ UNCHANGED <<thrown, parses, rvars, lvars>>

\* main without the test of lines 51-53
MainAwaitNoCheck ==
    /\ alive /\ mainpc = "launching"
    /\ Len(tasks) = Len(lambdaFilenames)
    /\ mainpc' = "awaiting"
    /\ thrown' = thrown
    /\ UNCHANGED <<mode, filter, dirEntries, lambdaFilenames, outputDirMade,
                   files, tasks, alive>>
    /\ UNCHANGED <<parses, rvars, lvars>>

\* main.js:51-54: no promise is an InputError, else main awaits allSettled
MainAwait ==
    /\ alive /\ mainpc = "launching"
    /\ Len(tasks) = Len(lambdaFilenames)
    /\ IF Len(tasks) = 0
       THEN /\ mainpc' = "rejectedEmpty"
            /\ thrown' = InputError("no lambdas specified; args: "
                                    \o Join(ArgvFrom2, " "))
       ELSE /\ mainpc' = "awaiting"
            /\ thrown' = thrown
    /\ UNCHANGED <<mode, filter, dirEntries, lambdaFilenames, outputDirMade,
                   files, tasks, alive>>
    /\ UNCHANGED <<parses, rvars, lvars>>

\* main completing as soon as one promise has settled
MainSettledAny ==
    /\ alive /\ mainpc = "awaiting"
    /\ \E i \in 1..Len(tasks) : Settled(tasks[i])
    /\ mainpc' = "done"
    /\ UNCHANGED <<mode, filter, dirEntries, lambdaFilenames, outputDirMade,
                   files, tasks, alive>>
    /\ UNCHANGED <<thrown, parses, rvars, lvars>>

\* main.js:54: every promise has settled
MainSettled ==
    /\ alive /\ mainpc = "awaiting"
    /\ \A i \in 1..Len(tasks) : Settled(tasks[i])
    /\ mainpc' = "done"
    /\ UNCHANGED <<mode, filter, dirEntries, lambdaFilenames, outputDirMade,
                   files, tasks, alive>>
    /\ UNCHANGED <<thrown, parses, rvars, lvars>>

\* run-lambda.js:62 and 84-92: open has made or truncated the output file;
\* the command is logged, the child spawned and the promise returned
OpenDone(i) ==
    /\ alive /\ mainpc # "launching"
    /\ tasks[i].pc = "opening"
    /\ files' = [files EXCEPT ![tasks[i].lambda] = Empty]
    /\ tasks' = [tasks EXCEPT ![i].pc = "waiting", ![i].opened = TRUE,
                              ![i].target = tasks[i].fn,
                              ![i].command = "sam",
                              ![i].args = LocalArgs(tasks[i], tasks[i].fn),
                              ![i].stdout = tasks[i].stdoutPath,
                              ![i].log = Append(@, Line("command", 0)),
                              ![i].spawned = TRUE]
    /\ UNCHANGED <<mainpc, mode, filter, dirEntries, lambdaFilenames,
                   outputDirMade, alive>>
    /\ UNCHANGED <<thrown, parses, rvars, lvars>>

\* the child process ends with an exit code, having written output or not
ChildClose(i, code, output) ==
    /\ alive
    /\ tasks[i].pc = "waiting"
    /\ files' = IF output = NoWrite THEN files
                ELSE [files EXCEPT ![tasks[i].lambda] = output]
    /\ tasks' = [tasks EXCEPT ![i].pc = "closed", ![i].code = code]
    /\ UNCHANGED <<mainpc, mode, filter, dirEntries, lambdaFilenames,
                   outputDirMade, alive>>
    /\ UNCHANGED <<thrown, parses, rvars, lvars>>

\* an 'error' event that settles the invocation
ChildErrorSettles(i) ==
    /\ alive /\ mainpc # "launching"
    /\ tasks[i].pc = "waiting"
    /\ tasks[i].stderr = 0
    /\ tasks' = [tasks EXCEPT ![i].stderr = 1, ![i].pc = "resolved"]
    /\ UNCHANGED <<mainpc, mode, filter, dirEntries, lambdaFilenames,
                   outputDirMade, files, alive>>
    /\ UNCHANGED <<thrown, parses, rvars, lvars>>

\* run-lambda.js:90: the child emits 'error' and console.error prints it
ChildError(i) ==
    /\ alive /\ mainpc # "launching"
    /\ tasks[i].pc = "waiting"
    /\ tasks[i].stderr = 0
    /\ tasks' = [tasks EXCEPT ![i].stderr = 1]
    /\ UNCHANGED <<mainpc, mode, filter, dirEntries, lambdaFilenames,
                   outputDirMade, files, alive>>
    /\ UNCHANGED <<thrown, parses, rvars, lvars>>

\* the close handler without the call of stdoutFd.close()
OnCloseNoClose(i) ==
    /\ alive /\ mainpc # "launching"
    /\ tasks[i].pc = "closed"
    /\ tasks' = [tasks EXCEPT ![i].pc = "closing"]
    /\ UNCHANGED <<mainpc, mode, filter, dirEntries, lambdaFilenames,
                   outputDirMade, files, alive>>
    /\ UNCHANGED <<thrown, parses, rvars, lvars>>

\* run-lambda.js:93-94: the close handler starts and awaits stdoutFd.close()
OnClose(i) ==
    /\ alive /\ mainpc # "launching"
    /\ tasks[i].pc = "closed"
    /\ tasks' = [tasks EXCEPT ![i].pc = "closing", ![i].closes = @ + 1]
    /\ UNCHANGED <<mainpc, mode, filter, dirEntries, lambdaFilenames,
                   outputDirMade, files, alive>>
    /\ UNCHANGED <<thrown, parses, rvars, lvars>>

\* the close handler without the exit code check of lines 96-100
AfterCloseNoCodeCheck(i) ==
    /\ alive /\ mainpc # "launching"
    /\ tasks[i].pc = "closing"
    /\ tasks' = [tasks EXCEPT ![i].pc = "reading",
                              ![i].readPath = tasks[i].stdoutPath]
    /\ UNCHANGED <<mainpc, mode, filter, dirEntries, lambdaFilenames,
                   outputDirMade, files, alive>>
    /\ UNCHANGED <<thrown, parses, rvars, lvars>>

\* run-lambda.js:96-102: a non-zero exit code is reported and the promise
\* resolved; else readFile is called
AfterClose(i) ==
    /\ alive /\ mainpc # "launching"
    /\ tasks[i].pc = "closing"
    /\ tasks' = IF tasks[i].code # 0
                THEN [tasks EXCEPT ![i].pc = "resolved",
                                   ![i].log = Append(@, Line("exit", tasks[i].code))]
                ELSE [tasks EXCEPT ![i].pc = "reading",
                                   ![i].readPath = tasks[i].stdoutPath]
    /\ UNCHANGED <<mainpc, mode, filter, dirEntries, lambdaFilenames,
                   outputDirMade, files, alive>>
    /\ UNCHANGED <<thrown, parses, rvars, lvars>>

\* the lines logged when the payload is printed only for a success
ReportOnlySuccess(outcome) ==
    IF outcome = "empty" THEN <<Line("empty", 0)>>
    ELSE <<Line(outcome, 0)>>
         \o (IF filter # <<>> /\ outcome = "success" THEN <<Line("payload", 0)>>
             ELSE <<>>)

\* the lines logged for a judged payload: lines 114-120
Report(outcome) ==
    IF outcome = "empty" THEN <<Line("empty", 0)>>
    ELSE <<Line(outcome, 0)>>
         \o (IF filter # <<>> THEN <<Line("payload", 0)>> ELSE <<>>)

\* run-lambda.js:102-121: readFile has ended; the payload is judged and the
\* promise resolved.  When readFile or a parse throws, the handler's promise
\* rejects with nobody to handle it: node either only warns, and the task
\* stays pending, or ends the process.
AfterRead(i) ==
    /\ alive /\ mainpc # "launching"
    /\ tasks[i].pc = "reading"
    /\ LET content == files[tasks[i].lambda]
           outcome == Judge(content)
       IN  IF outcome = "throw"
           THEN /\ tasks' = [tasks EXCEPT ![i].pc = "threw", ![i].read = content]
                /\ alive' \in {TRUE, FALSE}
           ELSE /\ tasks' = [tasks EXCEPT ![i].pc = "resolved", ![i].read = content,
                                          ![i].log = @ \o Report(outcome)]
                /\ alive' = alive
    /\ UNCHANGED <<mainpc, mode, filter, dirEntries, lambdaFilenames,
                   outputDirMade, files>>
    /\ UNCHANGED <<thrown, parses, rvars, lvars>>

Next ==
    \/ MainValidate
    \/ MainMkdir
    \/ MainReaddir
    \/ MainParse
    \/ LaunchTask
    \/ MainAwait
    \/ MainSettled
    \/ \E i \in 1..Len(tasks) : OpenDone(i)
    \/ \E i \in 1..Len(tasks) : \E code \in ExitCodes :
          \E output \in ChildOutputs(code) : ChildClose(i, code, output)
    \/ \E i \in 1..Len(tasks) : ChildError(i)
    \/ \E i \in 1..Len(tasks) : OnClose(i)
    \/ \E i \in 1..Len(tasks) : AfterClose(i)
    \/ \E i \in 1..Len(tasks) : AfterRead(i)

Spec == Init /\ [][Next]_vars

\* The event loop runs every continuation and every handler that is ready,
\* and, as the hypothesis of the termination claim, every child that runs
\* comes to close.
Fairness ==
    /\ WF_vars(MainValidate) /\ WF_vars(MainMkdir) /\ WF_vars(MainReaddir)
    /\ WF_vars(MainParse) /\ WF_vars(LaunchTask) /\ WF_vars(MainAwait)
    /\ WF_vars(MainSettled)
    /\ \A i \in 1..MaxFiles :
          /\ WF_vars(Len(tasks) >= i /\ OpenDone(i))
          /\ WF_vars(Len(tasks) >= i /\ OnClose(i))
          /\ WF_vars(Len(tasks) >= i /\ AfterClose(i))
          /\ WF_vars(Len(tasks) >= i /\ AfterRead(i))
          /\ WF_vars(/\ Len(tasks) >= i
                     /\ \E code \in ExitCodes : \E output \in ChildOutputs(code) :
                           ChildClose(i, code, output))

SpecFair == Spec /\ Fairness

(***************************************************************************)
(* What a descriptor holds, stated without the traversal of the resolver:  *)
(* all its CodeUri entries, in document order, each with the keys above    *)
(* it.                                                                     *)
(***************************************************************************)
RECURSIVE LocatorsOf(_, _), LocatorsFrom(_, _, _)

LocatorsFrom(entries, i, parents) ==
    IF i > Len(entries) THEN <<>>
    ELSE (IF entries[i].k = "CodeUri"
          THEN <<[path |-> parents, val |-> entries[i].v]>>
          ELSE <<>>)
         \o LocatorsOf(entries[i].v, Append(parents, entries[i].k))
         \o LocatorsFrom(entries, i + 1, parents)

LocatorsOf(value, parents) ==
    IF value.t \in {"map", "seq"} THEN LocatorsFrom(value.e, 1, parents) ELSE <<>>

Locators == LocatorsOf(document, <<>>)

\* the locator is a string ending with the suffix
Matches(loc) == loc.val.t = "str" /\ EndsWith(loc.val.s, suffix)

MatchingIndexes == {i \in 1..Len(Locators) : Matches(Locators[i])}

\* the key two levels above a locator with at least two ancestor keys
GrandparentKey(loc) == loc.path[Len(loc.path) - 1]

RECURSIVE OnlyMappings(_)

\* a nested mapping: a mapping holding scalars and nested mappings only
OnlyMappings(value) ==
    /\ value.t = "map"
    /\ \A i \in 1..Len(value.e) :
          value.e[i].v.t \in {"map", "seq"} => OnlyMappings(value.e[i].v)

Called == found # NotCalled

\* C2: in a nested mapping where exactly one CodeUri value ends with the
\* suffix and it lies under at least two keys, findFunctionName returns the
\* key two levels above it, at any depth.
C2_GrandparentKey ==
    (/\ Called
     /\ OnlyMappings(document)
     /\ Cardinality(MatchingIndexes) = 1
     /\ \A i \in MatchingIndexes : Len(Locators[i].path) >= 2)
    => \A i \in MatchingIndexes : found = Ret(GrandparentKey(Locators[i]))

\* C3: for a mapping tree holding no CodeUri value that ends with the
\* suffix, findFunctionName returns undefined.
C3_NoMatchUndefined ==
    (Called /\ OnlyMappings(document) /\ MatchingIndexes = {})
    => found = Undefined

FirstMatch == CHOOSE i \in MatchingIndexes : \A j \in MatchingIndexes : i <= j

\* C4: when several resources have a CodeUri ending with the suffix,
\* findFunctionName returns the key of the one that comes first in document
\* order.
C4_FirstMatchWins ==
    (/\ Called
     /\ OnlyMappings(document)
     /\ Cardinality(MatchingIndexes) >= 2
     /\ \A i \in MatchingIndexes : Len(Locators[i].path) >= 2)
    => found = Ret(GrandparentKey(Locators[FirstMatch]))

\* C5: for a root that is not a mapping (null, a number, a string),
\* findFunctionName returns undefined and throws nothing.
C5_ScalarRootUndefined ==
    (Called /\ document.t \in {"null", "num", "str"}) => found = Undefined

C5_Witness == Called /\ document = NullVal /\ found = Undefined

RECURSIVE MatchInMappings(_)

\* a CodeUri string ending with the suffix is reached from value through
\* mappings alone, no sequence on the way
MatchInMappings(value) ==
    /\ value.t = "map"
    /\ \E i \in 1..Len(value.e) :
          \/ /\ value.e[i].k = "CodeUri"
             /\ value.e[i].v.t = "str"
             /\ EndsWith(value.e[i].v.s, suffix)
          \/ MatchInMappings(value.e[i].v)

\* C28: findFunctionName descends into mappings only: when every CodeUri
\* that ends with the suffix lies under a sequence, it returns undefined.
C28_ArraysNotDescended ==
    (Called /\ MatchingIndexes # {} /\ ~MatchInMappings(document))
    => found = Undefined

\* C29: a CodeUri whose value is not a string is never a match and
\* findFunctionName throws for no descriptor.
C29_NonStringNeverThrows ==
    Called => found # Throw

\* C30: when some CodeUri string ending with the suffix has at least two
\* keys above it, the upper one not empty, findFunctionName returns a name,
\* whatever other matching CodeUri comes earlier.
C30_WellPlacedFound ==
    (/\ Called
     /\ \E i \in MatchingIndexes :
           /\ Len(Locators[i].path) >= 2
           /\ GrandparentKey(Locators[i]) # "")
    => found.k = "ret" /\ found.v # ""

(***************************************************************************)
(* The invocations of a batch.                                             *)
(***************************************************************************)
TaskIds == 1..Len(tasks)

HasLine(task, kind) == \E j \in 1..Len(task.log) : task.log[j].k = kind

LastLine(task) == task.log[Len(task.log)]

\* the close handler has read the output file
HasRead(task) == task.read # Unread

\* the claim's reading of a payload: statusCode 200, no top-level errors and
\* no non-empty errors list in the body
ClaimedSuccess(content) ==
    /\ content.statusCode = 200
    /\ content.errors = "absent"
    /\ content.body # "{\"errors\":[1]}"

\* C1: after exit code 0, a payload that is a JSON object with a parseable
\* body is reported as success exactly when its statusCode is 200, it has no
\* top-level errors and its body has no non-empty errors list, and as
\* failure otherwise.
C1_SuccessIffNoErrors ==
    \A i \in TaskIds :
        (/\ tasks[i].code = 0
         /\ HasRead(tasks[i])
         /\ tasks[i].read.kind = "object"
         /\ tasks[i].read.body # "oops")
        => IF ClaimedSuccess(tasks[i].read)
           THEN HasLine(tasks[i], "success") /\ ~HasLine(tasks[i], "failure")
           ELSE HasLine(tasks[i], "failure") /\ ~HasLine(tasks[i], "success")

\* no CodeUri string of the template ends with the fixture name
NoResourceMatches(lambda) ==
    \A j \in 1..Len(Locators) :
        ~(Locators[j].val.t = "str" /\ EndsWith(Locators[j].val.s, lambda))

\* C6: when the fixture name matches no resource of the template, runLambda
\* reports "could not find function name" and resolves; it spawns no child,
\* makes no remote lookup and opens no output file, and the output file is
\* untouched.
C6_NotFoundNoSideEffect ==
    \A i \in TaskIds :
        NoResourceMatches(tasks[i].lambda)
        => /\ tasks[i].pc = "resolved"
           /\ tasks[i].log = <<Line("notfound", 0)>>
           /\ ~tasks[i].spawned
           /\ ~tasks[i].looked
           /\ ~tasks[i].opened
           /\ tasks[i].code = -1
           /\ tasks[i].closes = 0
           /\ ~HasRead(tasks[i])
           /\ files[tasks[i].lambda] = Absent

\* C7: when the child closes with a non-zero exit code, runLambda reports
\* the "exited with code" line holding that code and resolves; it never reads
\* the output file and reports no classification.
C7_NonZeroExit ==
    \A i \in TaskIds :
        (tasks[i].code # -1 /\ tasks[i].code # 0)
        => /\ tasks[i].pc \in {"closed", "closing", "resolved"}
           /\ ~HasRead(tasks[i])
           /\ \A kind \in {"empty", "success", "failure", "payload"} :
                 ~HasLine(tasks[i], kind)
           /\ tasks[i].pc = "resolved"
              => LastLine(tasks[i]) = Line("exit", tasks[i].code)

C7_Witness ==
    \E i \in TaskIds :
        /\ tasks[i].code = 1
        /\ tasks[i].pc = "resolved"
        /\ HasLine(tasks[i], "exit")

\* C8: when the child closes with exit code 0 and the output file is absent
\* or holds no bytes, runLambda reports "empty response" and resolves without
\* parsing a payload.
C8_EmptyResponse ==
    \A i \in TaskIds :
        (/\ tasks[i].code = 0
         /\ HasRead(tasks[i])
         /\ tasks[i].read.kind \in {"absent", "empty"})
        => /\ tasks[i].pc = "resolved"
           /\ LastLine(tasks[i]) = Line("empty", 0)
           /\ \A kind \in {"success", "failure", "payload"} : ~HasLine(tasks[i], kind)

Reported(task) ==
    \E kind \in {"notfound", "exit", "empty", "failure", "success"} :
        HasLine(task, kind)

\* the handler of the close event has run to its end or to a throw
Judged(task) == task.pc \in {"resolved", "rejected", "threw"}

\* the invocation is on one of the expected failure paths: no resource
\* matches the fixture, the child exited with a non-zero code, the output
\* file is absent or empty after exit code 0, or the payload is classified
\* as a failure
ExpectedFailure(task) ==
    \/ NoResourceMatches(task.lambda)
    \/ Judged(task) /\ task.code # -1 /\ task.code # 0
    \/ task.code = 0 /\ HasRead(task) /\ task.read.kind \in {"absent", "empty"}
    \/ HasLine(task, "failure")

\* C9: on the expected failure paths (not found, non-zero exit, empty
\* response, failure classification) the promise of runLambda does not
\* reject: it is resolved, and it is resolved only once the outcome is
\* reported.
C9_ExpectedFailuresResolve ==
    \A i \in TaskIds :
        /\ ExpectedFailure(tasks[i]) => tasks[i].pc = "resolved"
        /\ tasks[i].pc = "resolved" => Reported(tasks[i])

\* C10: main completes only after every launched task has settled, it does
\* not reject once tasks are launched, and the failure of one fixture does
\* not cancel the invocation of another: no invocation is left unreported
\* because another one failed.
C10_SettleAll ==
    /\ mainpc = "done"
       => /\ Len(tasks) = Len(lambdaFilenames)
          /\ \A i \in TaskIds : Settled(tasks[i])
    /\ mainpc \in {"rejectedMode", "rejectedEmpty"} => tasks = <<>>
    /\ \A i \in TaskIds : \A j \in TaskIds :
          (i # j /\ tasks[j].pc = "threw" /\ ~alive)
          => (Settled(tasks[i]) \/ tasks[i].pc = "threw")

(***************************************************************************)
(* The child process of an invocation and the handlers of its events.      *)
(***************************************************************************)
ExpectedInput(task) == "events/" \o Concat(task.lambda) \o ".json"
ExpectedOutput(task) == "out/" \o Concat(task.lambda) \o ".json"

\* the name the inventory holds for a declared name
DeployedName(task) == "stack-" \o task.fn \o "-1a2b"

\* C21: in local mode the child is sam local invoke of the declared name
\* with the event file of the fixture and stdout on the output file of the
\* fixture; in remote mode it is aws lambda invoke of the deployed name,
\* not the declared one, with the event file as payload, read timeout 0 and
\* the output file as outfile; readFile is given that output file.
C21_SpawnedCommand ==
    \A i \in TaskIds :
        /\ tasks[i].spawned
           => IF mode = "local"
              THEN /\ tasks[i].command = "sam"
                   /\ tasks[i].args = <<"local", "invoke", tasks[i].fn, "--event",
                                        ExpectedInput(tasks[i])>>
                   /\ tasks[i].fn # ""
                   /\ tasks[i].stdout = ExpectedOutput(tasks[i])
              ELSE /\ tasks[i].command = "aws"
                   /\ tasks[i].args =
                         <<"lambda", "invoke", "--function-name",
                           DeployedName(tasks[i]),
                           "--payload", "file://" \o ExpectedInput(tasks[i]),
                           "--cli-binary-format", "raw-in-base64-out",
                           "--cli-read-timeout", "0", ExpectedOutput(tasks[i])>>
                   /\ tasks[i].target = DeployedName(tasks[i])
                   /\ tasks[i].target # tasks[i].fn
        /\ (HasRead(tasks[i]) \/ tasks[i].pc = "reading")
           => tasks[i].readPath = ExpectedOutput(tasks[i])

C21_Witness ==
    \E i \in TaskIds :
        /\ mode = "remote"
        /\ tasks[i].spawned
        /\ tasks[i].fn = "Func1"
        /\ HasRead(tasks[i])
        /\ tasks[i].pc = "resolved"

\* C22: no two invocations of a batch that have a child use the same
\* output file.
C22_OutputPathsDistinct ==
    \A i \in TaskIds : \A j \in TaskIds :
        (i # j /\ tasks[i].spawned /\ tasks[j].spawned)
        => tasks[i].stdoutPath # tasks[j].stdoutPath

ClosedAt(i) == i \in TaskIds /\ tasks[i].pc = "closed"
SettledAt(i) == i \in TaskIds /\ Settled(tasks[i])

\* C23: an invocation whose child has closed eventually settles, whatever
\* the exit code and the output file; and, every child closing, main
\* eventually completes.
C23_ClosedSettles ==
    /\ \A i \in 1..MaxFiles : ClosedAt(i) ~> SettledAt(i)
    /\ (mainpc = "awaiting") ~> (mainpc = "done")

\* C24: in remote mode the lookup comes before the spawn; when it fails
\* there is no child for that fixture and only its task is rejected: main
\* does not reject and launches an invocation for every fixture.
C24_LookupBeforeSpawn ==
    mode = "remote"
    => /\ \A i \in TaskIds :
             /\ tasks[i].spawned => (tasks[i].looked /\ tasks[i].target # "")
             /\ (tasks[i].looked /\ tasks[i].target = "")
                => /\ tasks[i].pc = "rejected"
                   /\ ~tasks[i].spawned
                   /\ tasks[i].log = <<>>
                   /\ tasks[i].code = -1
                   /\ tasks[i].stderr = 0
       /\ tasks # <<>> => thrown = NoError
       /\ mainpc \in {"awaiting", "done"} => Len(tasks) = Len(lambdaFilenames)

C24_Witness ==
    /\ mode = "remote"
    /\ Len(tasks) = 2
    /\ tasks[1].looked /\ tasks[1].pc = "rejected"
    /\ tasks[2].pc = "resolved" /\ HasLine(tasks[2], "success")
    /\ mainpc = "done"

Outcome(task) ==
    \E kind \in {"exit", "empty", "success", "failure", "payload"} :
        HasLine(task, kind)

\* C25: after the close event stdoutFd.close() is called once, whatever
\* the exit code, and before the output file is read, an outcome reported
\* or the task settled.
C25_ChannelClosedOnce ==
    \A i \in TaskIds :
        /\ tasks[i].closes <= 1
        /\ tasks[i].code = -1 => tasks[i].closes = 0
        /\ (\/ HasRead(tasks[i])
            \/ tasks[i].readPath # ""
            \/ Outcome(tasks[i])
            \/ tasks[i].code # -1 /\ Judged(tasks[i]))
           => tasks[i].closes = 1
        /\ tasks[i].pc = "closing"
           => tasks[i].closes = 1 /\ ~HasRead(tasks[i]) /\ ~Outcome(tasks[i])

C25_Witness ==
    \E i \in TaskIds :
        /\ tasks[i].code = 1
        /\ tasks[i].closes = 1
        /\ tasks[i].pc = "resolved"

\* C26: while a child has not closed, main does not complete and does not
\* reject, and the handlers of every other invocation stay ready to run:
\* the pending invocation holds back no other.
C26_HungChildIsolated ==
    \A i \in TaskIds :
        tasks[i].pc = "waiting"
        => /\ mainpc # "done"
           /\ thrown = NoError
           /\ \A j \in TaskIds \ {i} :
                 (alive /\ mainpc # "launching")
                 => /\ tasks[j].pc = "closed" => ENABLED OnClose(j)
                    /\ tasks[j].pc = "closing" => ENABLED AfterClose(j)
                    /\ tasks[j].pc = "reading" => ENABLED AfterRead(j)

C26_Witness ==
    \E i \in TaskIds : \E j \in TaskIds :
        /\ tasks[i].pc = "waiting"
        /\ tasks[j].pc = "resolved"
        /\ tasks[j].closes = 1
        /\ HasLine(tasks[j], "failure")
        /\ mainpc = "awaiting"

\* C27: an 'error' event of the child is printed and nothing else: the
\* invocation stays pending until the close event and its outcome is that
\* of the exit code and the output file.
C27_ErrorOnlyLogged ==
    \A i \in TaskIds :
        /\ (tasks[i].stderr > 0 /\ tasks[i].code = -1) => tasks[i].pc = "waiting"
        /\ (tasks[i].spawned /\ tasks[i].pc = "resolved")
           => /\ tasks[i].code # -1
              /\ tasks[i].log =
                    <<Line("command", 0)>>
                    \o (IF tasks[i].code # 0 THEN <<Line("exit", tasks[i].code)>>
                        ELSE Report(Judge(tasks[i].read)))

C27_Witness ==
    \E i \in TaskIds :
        /\ tasks[i].stderr = 1
        /\ tasks[i].pc = "resolved"
        /\ HasLine(tasks[i], "success")

(***************************************************************************)
(* main: its arguments and the events directory.                           *)
(***************************************************************************)
\* a file name without its extension: what precedes its last dot
ExpectedFixtureName(name) ==
    IF LastDot(name) > 1 THEN SubSeq(name, 1, LastDot(name) - 1) ELSE name

\* the entries of the events directory whose derived name is the filter
FilterMatches ==
    {j \in 1..Len(dirEntries) : ExpectedFixtureName(dirEntries[j]) = filter}

\* no fixture: the directory is empty or the filter matches nothing
NoFixture == dirEntries = <<>> \/ (filter # <<>> /\ FilterMatches = {})

ExpectedArgs == IF filter = <<>> THEN mode ELSE mode \o " " \o Concat(filter)

ValidMode == mode \in {"remote", "local"}

\* C11: when the fixture set is empty, main rejects with the InputError
\* "no lambdas specified; args: <arguments>" and never comes to await;
\* no runLambda call is made at any point.
C11_EmptySetRejected ==
    /\ (ValidMode /\ NoFixture)
       => /\ tasks = <<>>
          /\ mainpc \notin {"awaiting", "done"}
          /\ mainpc = "rejectedEmpty"
             => thrown = InputError("no lambdas specified; args: " \o ExpectedArgs)
          /\ mainpc # "rejectedEmpty" => thrown = NoError
    /\ mainpc = "rejectedEmpty" => NoFixture

C11_Witness ==
    /\ mainpc = "rejectedEmpty"
    /\ filter # <<>>
    /\ dirEntries # <<>>
    /\ thrown = InputError("no lambdas specified; args: remote f")

\* C12: when the mode is neither "remote" nor "local", main rejects with
\* the InputError "second argument must be 'remote' or 'local'" and has done
\* nothing else: no output directory, no listing, no template, no task.
C12_BadModeRejected ==
    /\ ~ValidMode
       => /\ mainpc \in {"start", "rejectedMode"}
          /\ ~outputDirMade
          /\ lambdaFilenames = <<>>
          /\ tasks = <<>>
          /\ thrown = IF mainpc = "start" THEN NoError
                      ELSE InputError("second argument must be 'remote' or 'local'")
    /\ mainpc = "rejectedMode" => ~ValidMode

C12_Witness ==
    /\ mainpc = "rejectedMode"
    /\ dirEntries # <<>>
    /\ thrown.type = "InputError"

\* C13: with a filter, main launches invocations only for the entries of
\* the events directory whose derived name is the filter, and at most one.
C13_FilterExactAtMostOne ==
    filter # <<>>
    => /\ Len(tasks) <= Cardinality(FilterMatches)
       /\ Len(tasks) <= 1

\* C14: the fixture name main passes to runLambda is the file name with its
\* extension stripped once; it is the name the filter is compared with.
C14_NameStrippedOnce ==
    \A i \in TaskIds :
        IF filter = <<>>
        THEN tasks[i].lambda = ExpectedFixtureName(dirEntries[i])
        ELSE tasks[i].lambda = filter

\* C19: with the filtered flag, a payload that is classified, as a success
\* or as a failure, is printed after its classification line; without the
\* flag no payload is ever printed.
C19_PayloadWhenFiltered ==
    \A i \in TaskIds :
        /\ (HasLine(tasks[i], "success") \/ HasLine(tasks[i], "failure"))
           => (filter # <<>> <=> LastLine(tasks[i]) = Line("payload", 0))
        /\ filter = <<>> => ~HasLine(tasks[i], "payload")
        /\ HasLine(tasks[i], "payload")
           => /\ tasks[i].code = 0
              /\ tasks[i].read.kind = "object"
              /\ Cardinality({j \in 1..Len(tasks[i].log) :
                                 tasks[i].log[j].k = "payload"}) = 1

C19_Witness ==
    \E i \in TaskIds :
        /\ filter # <<>>
        /\ HasLine(tasks[i], "failure")
        /\ LastLine(tasks[i]) = Line("payload", 0)

(***************************************************************************)
(* The remote lookup.                                                      *)
(***************************************************************************)
LookedUp == lpc = "done"

\* the prefix the claims expect the query to be made with
ExpectedPrefix ==
    IF stackName.t = "string" /\ stackName.s # ""
    THEN stackName.s \o "-" \o prefix
    ELSE prefix

\* the answers that name a function, with the name they hold once the
\* white space around it is dropped
NamingAnswers == {"match", "padded"}

ExpectedName ==
    IF inventory = "match" THEN ExpectedPrefix \o "-1a2b"
    ELSE ExpectedPrefix \o " x"

EmptyAnswers == {"", "blank", "None", "bareNone"}
ErrorAnswers == {"error", "enoent"}

CauseMessage ==
    IF inventory = "enoent" THEN "spawnSync /bin/sh ENOENT" ELSE "Command failed: aws"

NotFoundMessage == "No function found with prefix: " \o ExpectedPrefix

\* C15: resolveFunctionName queries with "<stackName>-<declaredName>" when
\* stackName is a non-empty string and with the declared name alone when it
\* is absent or empty, and returns a non-empty, non-None answer trimmed.
C15_PrefixAndTrim ==
    LookedUp
    => /\ command = Command(ExpectedPrefix)
       /\ inventory \in NamingAnswers => actual = Ret(ExpectedName)

C15_Witness ==
    /\ LookedUp
    /\ stackName = JString("")
    /\ inventory = "padded"
    /\ actual = Ret("MyFunc x")

\* C16: when the query returns nothing, white space only or the text None,
\* resolveFunctionName throws an error whose message says no function was
\* found and contains the effective prefix; it returns no name.
C16_EmptyAnswerThrows ==
    (LookedUp /\ inventory \in EmptyAnswers)
    => /\ actual.k = "throw"
       /\ \E lead \in {"", "Failed to resolve function: "} :
             actual.v = lead \o NotFoundMessage

C16_Witness ==
    /\ LookedUp
    /\ inventory = "blank"
    /\ stackName = JString("pkg")
    /\ actual.k = "throw"

\* C17: when execSync throws, resolveFunctionName throws an error whose
\* message is "Failed to resolve function: " followed by the message of the
\* cause.
C17_CauseWrapped ==
    (LookedUp /\ inventory \in ErrorAnswers)
    => actual = [k |-> "throw", v |-> "Failed to resolve function: " \o CauseMessage]

C17_Witness ==
    /\ LookedUp
    /\ inventory = "enoent"
    /\ actual.k = "throw"

\* C18: the "Failed to resolve function: ..." error is thrown only when
\* execSync itself threw; an empty or None answer gives the error that says
\* no function was found, not wrapped.
C18_FailuresDistinct ==
    (LookedUp /\ actual.k = "throw")
    => /\ (\E rest \in {CauseMessage, NotFoundMessage} :
              actual.v = "Failed to resolve function: " \o rest)
          => inventory \in ErrorAnswers
       /\ inventory \in EmptyAnswers => actual.v = NotFoundMessage

(***************************************************************************)
(* The entrypoint.                                                         *)
(***************************************************************************)
Entered == lpc \in {"lookup", "done"}

\* C20: the entrypoint passes the npm package name as stackName exactly
\* when STACK_NAME is not defined and USE_PACKAGE_NAME is true or unset;
\* with USE_PACKAGE_NAME set to false and STACK_NAME not defined it passes
\* no stackName.
C20_PackageNameFallback ==
    Entered
    => /\ env.npm_package_name # JUndefined
          => (stackName = env.npm_package_name
              <=> /\ env.STACK_NAME = JUndefined
                  /\ env.USE_PACKAGE_NAME \in {JUndefined, JString("true")})
       /\ (env.USE_PACKAGE_NAME = JString("false") /\ env.STACK_NAME = JUndefined)
          => stackName = JUndefined

(***************************************************************************)
(* Outcomes of an invocation and of a fixture; the shared template.        *)
(***************************************************************************)
OutcomeKinds == {"notfound", "exit", "empty", "success", "failure"}

\* the positions of the outcome lines in the console output of a task
OutcomeLines(task) == {n \in 1..Len(task.log) : task.log[n].k \in OutcomeKinds}

\* an invocation reports at most one outcome, and only a settled one has
\* reported it
OneOutcomePerInvocation ==
    \A i \in TaskIds :
        /\ Cardinality(OutcomeLines(tasks[i])) <= 1
        /\ OutcomeLines(tasks[i]) # {} => tasks[i].pc = "resolved"

C32_TemplateSharedReadOnly ==
    /\ [](/\ parses <= 1
          /\ tasks # <<>> => parses = 1
          /\ \A i \in TaskIds : tasks[i].document = document)
    /\ [][document' = document]_vars

C32_Witness ==
    /\ mainpc = "done"
    /\ parses = 1
    /\ Len(tasks) = 2
    /\ document = DocPair
    /\ tasks[1].fn # "" /\ tasks[2].fn # ""
    /\ tasks[1].fn # tasks[2].fn
    /\ tasks[1].document = DocPair /\ tasks[2].document = DocPair
====
